---- MODULE Spec2Model ----
(***************************************************************************)
(* Sign-In with Ethereum (EIP-4361) message model, canonical serializer    *)
(* and verification pipeline of packages/siwe/lib/client.ts.               *)
(*                                                                         *)
(* Strings are modelled as texts: a text is a sequence of lines and a line *)
(* is a sequence of tokens, so that string concatenation, join('\n') and   *)
(* the line-oriented grammar of the parser are computed, not assumed.      *)
(***************************************************************************)
EXTENDS Integers, Sequences, FiniteSets, TLC

VARIABLES
    phase,      \* "new" | "built" | "failed": outcome of the constructor
    msg,        \* the fields of the SiweMessage object (this)
    built,      \* the fields as they were when the constructor returned or threw
    now,        \* an instant that has passed: that of the last operation timed;
                \* new Date() returns any instant from it on
    texts,      \* the strings returned by prepareMessage calls, and when
    call,       \* the state of the verify call (promise, proofs, trace)
    other       \* the state of a second verify call on the same message

vars == <<phase, msg, built, now, texts, call, other>>

\* ------------------------------------------------------------ bounds

\* the clock takes the instants 0..MaxClock
MaxClock == 2
\* at most this many explicit toMessage/prepareMessage calls are recorded
MaxSerializations == 2

\* ------------------------------------------------------------ JS values

\* the JavaScript value undefined, for a field that holds a string
UNDEF == "<undefined>"
\* the JavaScript value undefined, for the resources field (an array)
NORES == <<UNDEF>>

\* JavaScript truthiness of a string-or-undefined value
Truthy(x) == x # UNDEF /\ x # ""

\* a statement that contains a line feed
TwoLineStatement == "two\nlines"

\* the text of a string value: its lines, each a sequence of tokens
Lines(s) ==
    IF s = "" THEN << <<>> >>
    ELSE IF s = TwoLineStatement THEN << <<"two">>, <<"lines">> >>
    ELSE << <<s>> >>

\* string concatenation (+ and template literals) on texts
Cat(a, b) ==
    SubSeq(a, 1, Len(a) - 1) \o << a[Len(a)] \o b[1] >> \o Tail(b)

\* ${x} in a template literal: undefined prints as "undefined"
Tpl(x) == Lines(IF x = UNDEF THEN "undefined" ELSE x)

\* an element of Array.prototype.join: undefined prints as ""
Elem(x) == Lines(IF x = UNDEF THEN "" ELSE x)

\* Array.prototype.join('\n') of texts: a line break between the elements
JoinLF(parts) ==
    LET RECURSIVE J(_)
        J(k) == IF k = 0 THEN <<>> ELSE J(k - 1) \o parts[k]
    IN  IF Len(parts) = 0 THEN << <<>> >> ELSE J(Len(parts))

\* the text "\n"
LF == << <<>>, <<>> >>

\* ------------------------------------------------------------ dates

\* Date.prototype.toISOString for the instants of the model
ISO == [t \in 0..MaxClock |->
          "2026-01-01T00:00:0" \o ToString(t) \o ".000Z"]

\* the same instants written without milliseconds (also valid ISO 8601)
ShortISO == [t \in 0..MaxClock |->
          "2026-01-01T00:00:0" \o ToString(t) \o "Z"]

\* the time value of an invalid Date
NaN == -1

\* new Date(s).getTime()
DateParse(s) ==
    IF \E t \in DOMAIN ISO : ISO[t] = s
    THEN CHOOSE t \in DOMAIN ISO : ISO[t] = s
    ELSE IF \E t \in DOMAIN ShortISO : ShortISO[t] = s
    THEN CHOOSE t \in DOMAIN ShortISO : ShortISO[t] = s
    ELSE NaN

\* ------------------------------------------------------------ collaborators

\* generateNonce() of ./utils: the nonces it may return
GeneratedNonces == {"Gen3rat3dNonc3"}

\* parseIntegerNumber of the parser package: parseInt, failing on NaN
ParseInt(s) ==
    IF s = "1" THEN 1 ELSE IF s = "5" THEN 5 ELSE NaN

\* what the grammar of the parser accepts for each field
ValidSchemes == {"https", "http"}
ValidDomains == {"example.com", "other.com"}
ValidAddresses == {"0xAbC0000000000000000000000000000000000001"}
ValidStatements == {"Sign in to Example"}
ValidURIs == {"https://example.com/login", "https://example.com/r1",
              "https://example.com/r2"}
ValidNonces == {"abcdefgh", "zyxwvuts"} \cup GeneratedNonces
ValidDates == {ISO[t] : t \in DOMAIN ISO} \cup {ShortISO[t] : t \in DOMAIN ShortISO}
ValidRequestIds == {"req-1"}

WantsYou == " wants you to sign in with your Ethereum account:"

\* the record of a message none of whose optional fields is set
NoFields ==
    [scheme |-> UNDEF, domain |-> UNDEF, address |-> UNDEF, statement |-> UNDEF,
     uri |-> UNDEF, version |-> UNDEF, chainId |-> NaN, nonce |-> UNDEF,
     issuedAt |-> UNDEF, expirationTime |-> UNDEF, notBefore |-> UNDEF,
     requestId |-> UNDEF, resources |-> NORES]

\* one tagged line "<tag><value>" of the message body
IsField(line, tag, valid) ==
    Len(line) = 2 /\ line[1] = tag /\ line[2] \in valid

\* new ParsedMessage(text) of the parser package: the EIP-4361 grammar over the
\* lines of the text; ok = FALSE when the parser throws
ParsedMessage(text) ==
    LET L == text
        n == Len(L)
        At(i) == IF i <= n THEN L[i] ELSE <<"<eof>">>
        hasScheme == Len(At(1)) = 4
        headerOk ==
            \/ /\ Len(At(1)) = 2
               /\ At(1)[1] \in ValidDomains
               /\ At(1)[2] = WantsYou
            \/ /\ Len(At(1)) = 4
               /\ At(1)[1] \in ValidSchemes
               /\ At(1)[2] = "://"
               /\ At(1)[3] \in ValidDomains
               /\ At(1)[4] = WantsYou
        addressOk == Len(At(2)) = 1 /\ At(2)[1] \in ValidAddresses
        \* LF [ statement LF ] LF, an empty statement line being a statement
        stKind ==
            IF At(3) # <<>> THEN "bad"
            ELSE IF Len(At(4)) = 1 /\ At(4)[1] \in ValidStatements /\ At(5) = <<>>
                 THEN "text"
            ELSE IF At(4) = <<>> /\ At(5) = <<>> THEN "empty"
            ELSE IF At(4) = <<>> THEN "absent"
            ELSE "bad"
        u == CASE stKind = "text" -> 6 [] stKind = "empty" -> 6 [] OTHER -> 5
        bodyOk ==
            /\ IsField(At(u), "URI: ", ValidURIs)
            /\ IsField(At(u + 1), "Version: ", {"1"})
            /\ Len(At(u + 2)) = 2 /\ At(u + 2)[1] = "Chain ID: "
            /\ ParseInt(At(u + 2)[2]) # NaN
            /\ IsField(At(u + 3), "Nonce: ", ValidNonces)
            /\ IsField(At(u + 4), "Issued At: ", ValidDates)
        e == u + 5
        hasExp == IsField(At(e), "Expiration Time: ", ValidDates)
        b == IF hasExp THEN e + 1 ELSE e
        hasNb == IsField(At(b), "Not Before: ", ValidDates)
        r == IF hasNb THEN b + 1 ELSE b
        hasReq == IsField(At(r), "Request ID: ", ValidRequestIds)
        s == IF hasReq THEN r + 1 ELSE r
        hasRes == At(s) = <<"Resources:">>
        resOk == \A i \in (s + 1)..n : IsField(L[i], "- ", ValidURIs)
        tailOk == IF hasRes THEN resOk ELSE s = n + 1
        ok == n >= 1 /\ headerOk /\ addressOk /\ stKind # "bad" /\ bodyOk /\ tailOk
    IN  IF ~ok THEN [ok |-> FALSE, m |-> NoFields]
        ELSE [ok |-> TRUE,
              m |-> [scheme |-> IF hasScheme THEN At(1)[1] ELSE UNDEF,
                     domain |-> IF hasScheme THEN At(1)[3] ELSE At(1)[1],
                     address |-> At(2)[1],
                     statement |-> CASE stKind = "text" -> At(4)[1]
                                     [] stKind = "empty" -> ""
                                     [] OTHER -> UNDEF,
                     uri |-> At(u)[2],
                     version |-> At(u + 1)[2],
                     chainId |-> ParseInt(At(u + 2)[2]),
                     nonce |-> At(u + 3)[2],
                     issuedAt |-> At(u + 4)[2],
                     expirationTime |-> IF hasExp THEN At(e)[2] ELSE UNDEF,
                     notBefore |-> IF hasNb THEN At(b)[2] ELSE UNDEF,
                     requestId |-> IF hasReq THEN At(r)[2] ELSE UNDEF,
                     resources |-> IF hasRes
                                   THEN [i \in 1..(n - s) |-> L[s + i][2]]
                                   ELSE NORES]]

\* ------------------------------------------------------------ toMessage

\* a prefix that takes an empty statement for an absent one
StatementPrefixTruthy(prefix0, statement) ==
    LET prefix1 == Cat(Cat(prefix0, Cat(LF, LF)), Elem(statement))
    IN  IF Truthy(statement) THEN Cat(prefix1, LF) ELSE prefix1

\* lines 157-161: [prefix, this.statement].join('\n\n'), and a line feed
\* after it when the statement is not undefined
StatementPrefix(prefix0, statement) ==
    LET prefix1 == Cat(Cat(prefix0, Cat(LF, LF)), Elem(statement))
    IN  IF statement # UNDEF THEN Cat(prefix1, LF) ELSE prefix1

\* toMessage(): the text returned and the fields of this afterwards, when
\* generateNonce() would return g and new Date() the instant t
ToMessage(m, g, t) ==
    LET headerPrefix ==
            IF Truthy(m.scheme)
            THEN Cat(Cat(Tpl(m.scheme), Lines("://")), Tpl(m.domain))
            ELSE Tpl(m.domain)
        header == Cat(headerPrefix, Lines(WantsYou))
        uriField == Cat(Lines("URI: "), Tpl(m.uri))
        prefix0 == JoinLF(<<header, Elem(m.address)>>)
        versionField == Cat(Lines("Version: "), Tpl(m.version))
        nonce1 == IF Truthy(m.nonce) THEN m.nonce ELSE g
        chainField == Cat(Lines("Chain ID: "), Lines(ToString(m.chainId)))
        nonceField == Cat(Lines("Nonce: "), Tpl(nonce1))
        issuedAt1 == IF Truthy(m.issuedAt) THEN m.issuedAt ELSE ISO[t]
        issuedField == Cat(Lines("Issued At: "), Tpl(issuedAt1))
        expiry == IF Truthy(m.expirationTime)
                  THEN << Cat(Lines("Expiration Time: "), Tpl(m.expirationTime)) >>
                  ELSE <<>>
        notBefore == IF Truthy(m.notBefore)
                     THEN << Cat(Lines("Not Before: "), Tpl(m.notBefore)) >>
                     ELSE <<>>
        request == IF Truthy(m.requestId)
                   THEN << Cat(Lines("Request ID: "), Tpl(m.requestId)) >>
                   ELSE <<>>
        \* an array is truthy even when it is empty
        resources ==
            IF m.resources # NORES
            THEN << JoinLF(<<Lines("Resources:")>> \o
                           [i \in 1..Len(m.resources) |->
                              Cat(Lines("- "), Tpl(m.resources[i]))]) >>
            ELSE <<>>
        suffixArray == <<uriField, versionField, chainField, nonceField, issuedField>>
                       \o expiry \o notBefore \o request \o resources
        suffix == JoinLF(suffixArray)
        prefix2 == StatementPrefix(prefix0, m.statement)
    IN  [text |-> JoinLF(<<prefix2, suffix>>),
         m |-> [m EXCEPT !.nonce = nonce1, !.issuedAt = issuedAt1]]

\* prepareMessage(): every version dispatches to toMessage()
PrepareMessage(m, g, t) ==
    IF m.version = "1" THEN ToMessage(m, g, t) ELSE ToMessage(m, g, t)

\* toMessage() reads the clock only for a falsy issuedAt (line 133)
ReadsClock(m) == ~Truthy(m.issuedAt)

\* ------------------------------------------------------------ constructor

\* the field path without its closing new ParsedMessage(this.prepareMessage())
ConstructFromFieldsUnvalidated(param, g, t) ==
    [ok |-> ~(param.chainId.type = "string" /\ ParseInt(param.chainId.str) = NaN),
     m |-> [scheme |-> param.scheme, domain |-> param.domain,
            address |-> param.address, statement |-> param.statement,
            uri |-> param.uri, version |-> param.version,
            chainId |-> IF param.chainId.type = "string"
                        THEN ParseInt(param.chainId.str) ELSE param.chainId.num,
            nonce |-> IF Truthy(param.nonce) THEN param.nonce ELSE g,
            issuedAt |-> param.issuedAt,
            expirationTime |-> param.expirationTime,
            notBefore |-> param.notBefore, requestId |-> param.requestId,
            resources |-> param.resources]]

\* the field path of the constructor (param is an object): ok = FALSE when it
\* throws; g is what generateNonce() would return, t what new Date() would
ConstructFromFields(param, g, t) ==
    LET chainId == IF param.chainId.type = "string"
                   THEN ParseInt(param.chainId.str)
                   ELSE param.chainId.num
        this == [scheme |-> param.scheme, domain |-> param.domain,
                 address |-> param.address, statement |-> param.statement,
                 uri |-> param.uri, version |-> param.version,
                 chainId |-> chainId,
                 nonce |-> IF Truthy(param.nonce) THEN param.nonce ELSE g,
                 issuedAt |-> param.issuedAt,
                 expirationTime |-> param.expirationTime,
                 notBefore |-> param.notBefore, requestId |-> param.requestId,
                 resources |-> param.resources]
        \* new ParsedMessage(this.prepareMessage())
        prepared == PrepareMessage(this, g, t)
    IN  IF param.chainId.type = "string" /\ chainId = NaN
        THEN [ok |-> FALSE, m |-> this]
        ELSE [ok |-> ParsedMessage(prepared.text).ok, m |-> prepared.m]

\* the string path with the failure of the parser swallowed
ConstructFromStringUnchecked(text) == [ok |-> TRUE, m |-> ParsedMessage(text).m]

\* the string path of the constructor: the parsed fields, copied
ConstructFromString(text) ==
    LET parsedMessage == ParsedMessage(text)
    IN  [ok |-> parsedMessage.ok, m |-> parsedMessage.m]

\* ------------------------------------------------------------ verify: values

\* a SiweResponse {success, data, error}; tag "error" is a thrown value that is
\* no SiweResponse (it has no success field), tag "none" is undefined
Response(success, type, expected, received) ==
    [tag |-> "response", success |-> success, data |-> "this", type |-> type,
     expected |-> expected, received |-> received]
Success == Response(TRUE, "none", "", "")
Thrown(type) ==
    [tag |-> "error", success |-> FALSE, data |-> "none", type |-> type,
     expected |-> "", received |-> ""]
Nothing ==
    [tag |-> "none", success |-> FALSE, data |-> "none", type |-> "none",
     expected |-> "", received |-> ""]

\* VerifyParamsKeys and VerifyOptsKeys of ./types
VerifyParamsKeys == {"signature", "scheme", "domain", "nonce", "time"}
VerifyOptsKeys == {"provider", "suppressExceptions", "verificationFallback"}

\* checkInvalidKeys of ./utils: the keys of obj that are not in keys
CheckInvalidKeys(obj, keys) == obj.keys \ keys

\* the addresses the signatures of the model recover to
OwnerAddress == "0xAbC0000000000000000000000000000000000001"
OtherAddress == "0xDeF0000000000000000000000000000000000002"

\* verifyMessage of ./ethersCompat: the signer of a signature over the text;
\* threw = TRUE when the signature is malformed
VerifyMessage(text, signature) ==
    CASE signature = "0xsignedByOwner" -> [threw |-> FALSE, addr |-> OwnerAddress]
      [] signature = "0xsignedByOther" -> [threw |-> FALSE, addr |-> OtherAddress]
      [] OTHER -> [threw |-> TRUE, addr |-> UNDEF]

\* comparisons of time values: false when either side is NaN
TimeGE(a, b) == a # NaN /\ b # NaN /\ a >= b
TimeLT(a, b) == a # NaN /\ b # NaN /\ a < b

\* ------------------------------------------------------------ verify: promise

\* the promise verify returns, with the trace of what the call has done
NewPromise == [state |-> "pending", value |-> Nothing, attempts |-> 0, trace |-> <<>>]

\* a resolve that takes effect on a settled promise too
resolveOverwrites(p, v) ==
    [p EXCEPT !.state = "resolved", !.value = v, !.attempts = @ + 1]

\* resolve / reject of the promise: only the first settlement takes effect
resolve(p, v) ==
    IF p.state = "pending"
    THEN [p EXCEPT !.state = "resolved", !.value = v, !.attempts = @ + 1]
    ELSE [p EXCEPT !.attempts = @ + 1]
reject(p, v) ==
    IF p.state = "pending"
    THEN [p EXCEPT !.state = "rejected", !.value = v, !.attempts = @ + 1]
    ELSE [p EXCEPT !.attempts = @ + 1]

\* const fail = result => opts.suppressExceptions ? resolve(result) : reject(result)
fail(p, opts, result) ==
    LET q == [p EXCEPT !.trace = Append(@, result.type)]
    IN  IF opts.suppressExceptions THEN resolve(q, result) ELSE reject(q, result)

\* an adapter or callback is invoked
Invoke(p, name) == [p EXCEPT !.trace = Append(@, name)]

\* ------------------------------------------------------------ verify: executor

\* const checkTime = new Date(time || new Date()), as a time value
CheckTime(params, t) ==
    IF Truthy(params.time) THEN DateParse(params.time) ELSE t

\* lines 205-217: unknown keys of params
CheckParamsKeys(p, params, opts) ==
    IF CheckInvalidKeys(params, VerifyParamsKeys) # {}
    THEN fail(p, opts, Response(FALSE, "INVALID_PARAMS_KEYS", "", ""))
    ELSE p

\* lines 219-231: unknown keys of opts
CheckOptsKeys(p, opts) ==
    IF CheckInvalidKeys(opts, VerifyOptsKeys) # {}
    THEN fail(p, opts, Response(FALSE, "INVALID_OPTS_KEYS", "", ""))
    ELSE p

\* lines 235-246: scheme for domain binding
CheckScheme(p, m, params, opts) ==
    IF Truthy(params.scheme) /\ params.scheme # m.scheme
    THEN fail(p, opts, Response(FALSE, "SCHEME_MISMATCH", params.scheme, m.scheme))
    ELSE p

\* lines 248-259: domain binding
CheckDomain(p, m, params, opts) ==
    IF Truthy(params.domain) /\ params.domain # m.domain
    THEN fail(p, opts, Response(FALSE, "DOMAIN_MISMATCH", params.domain, m.domain))
    ELSE p

\* lines 261-268: nonce binding
CheckNonce(p, m, params, opts) ==
    IF Truthy(params.nonce) /\ params.nonce # m.nonce
    THEN fail(p, opts, Response(FALSE, "NONCE_MISMATCH", params.nonce, m.nonce))
    ELSE p

\* the expiration test with the boundary instant still valid
ExpiredStrict(checkTime, expirationDate) ==
    checkTime # NaN /\ expirationDate # NaN /\ checkTime > expirationDate

\* the expiration test of line 276
Expired(checkTime, expirationDate) == TimeGE(checkTime, expirationDate)

\* lines 273-287: message not expired
CheckExpiration(p, m, opts, checkTime) ==
    IF Truthy(m.expirationTime) /\ Expired(checkTime, DateParse(m.expirationTime))
    THEN fail(p, opts,
              Response(FALSE, "EXPIRED_MESSAGE",
                  ISO[checkTime] \o " < " \o ISO[DateParse(m.expirationTime)],
                  ISO[checkTime] \o " >= " \o ISO[DateParse(m.expirationTime)]))
    ELSE p

\* the validity test of line 292
NotYetValid(checkTime, notBefore) == TimeLT(checkTime, notBefore)

\* lines 289-303: message is valid already
CheckNotBefore(p, m, opts, checkTime) ==
    IF Truthy(m.notBefore) /\ NotYetValid(checkTime, DateParse(m.notBefore))
    THEN fail(p, opts,
              Response(FALSE, "NOT_YET_VALID_MESSAGE",
                  ISO[checkTime] \o " >= " \o ISO[DateParse(m.notBefore)],
                  ISO[checkTime] \o " < " \o ISO[DateParse(m.notBefore)]))
    ELSE p

\* the stages with the temporal checks moved before the binding checks
StagesTemporalFirst(m, params, opts, checkTime) ==
    LET p1 == CheckParamsKeys(NewPromise, params, opts)
        p2 == CheckOptsKeys(p1, opts)
        p3 == CheckExpiration(p2, m, opts, checkTime)
        p4 == CheckNotBefore(p3, m, opts, checkTime)
        p5 == CheckScheme(p4, m, params, opts)
        p6 == CheckDomain(p5, m, params, opts)
    IN  CheckNonce(p6, m, params, opts)

\* lines 205-313: the stages before signature recovery, in program order; none
\* of them returns, so all of them run (the catch of lines 307-313 is not
\* modelled: toMessage has no statement that throws on a constructed message)
Stages(m, params, opts, checkTime) ==
    LET p1 == CheckParamsKeys(NewPromise, params, opts)
        p2 == CheckOptsKeys(p1, opts)
        p3 == CheckScheme(p2, m, params, opts)
        p4 == CheckDomain(p3, m, params, opts)
        p5 == CheckNonce(p4, m, params, opts)
        p6 == CheckExpiration(p5, m, opts, checkTime)
    IN  CheckNotBefore(p6, m, opts, checkTime)

\* line 323: addr === this.address
AddressMatches(addr, m) == addr = m.address

\* a direct match that does not settle the promise
DirectMatchFallsThrough(p, addr, m) == Invoke(p, "verifyMessage")

\* a recovery whose throw settles the call
DirectMatchRecoveryFatal(p, addr, m) ==
    LET q == Invoke(p, "verifyMessage")
    IN  IF addr = UNDEF THEN reject(q, Thrown("RECOVERY_ERROR"))
        ELSE IF AddressMatches(addr, m) THEN resolve(q, Success) ELSE q

\* lines 315-328: recover the address, settle on a direct match
DirectMatch(p, addr, m) ==
    LET q == Invoke(p, "verifyMessage")
    IN  IF AddressMatches(addr, m) THEN resolve(q, Success) ELSE q

\* lines 329-364: start the contract-wallet proof, then call the fallback; a
\* fallback that throws synchronously makes the executor throw, and the Promise
\* constructor rejects the promise with what was thrown
StartProofs(p, opts) ==
    LET q == Invoke(p, "checkContractWalletSignature")
        r == Invoke(q, "verificationFallback")
    IN  IF opts.verificationFallback = UNDEF THEN q
        ELSE IF opts.verificationFallback = "throws"
             THEN reject(r, Thrown("FALLBACK_THROWN"))
        ELSE r

\* a contract-wallet proof that takes every answer of the check for a success
EIP1271ResponseAnyAnswer(outcome, addr, m) ==
    CASE outcome \in {"valid", "invalid"} -> Success
      [] OTHER -> Response(FALSE, "PROVIDER_ERROR", "", "")

\* a contract-wallet proof that reports a thrown error as an invalid signature
EIP1271ResponseErrorAsInvalid(outcome, addr, m) ==
    CASE outcome = "valid" -> Success
      [] OTHER -> Response(FALSE, "INVALID_SIGNATURE", addr,
                           "Resolved address to be " \o m.address)

\* lines 334-357: the contract-wallet proof as a SiweResponse
EIP1271Response(outcome, addr, m) ==
    CASE outcome = "valid" -> Success
      [] outcome = "invalid" ->
            Response(FALSE, "INVALID_SIGNATURE", addr,
                     "Resolved address to be " \o m.address)
      [] OTHER -> Response(FALSE, "PROVIDER_ERROR", "", "")

\* lines 361-364: what the fallback's promise settles with, after
\* .then(res => res).catch(res => res)
FallbackResponse(fallback) ==
    CASE fallback = "resolvesSuccess" ->
            [Success EXCEPT !.data = "fallback"]
      [] fallback = "resolvesFailure" ->
            [Response(FALSE, "FALLBACK_FAILURE", "", "") EXCEPT !.data = "fallback"]
      [] fallback = "rejectsFailure" ->
            [Response(FALSE, "FALLBACK_REJECTION", "", "") EXCEPT !.data = "fallback"]
      [] fallback = "rejectsError" -> Thrown("FALLBACK_ERROR")
      [] OTHER -> Nothing

\* a handler that succeeds as soon as either proof succeeded
JoinHandlerEitherProof(p, opts, eipResponse, fallbackResponse) ==
    IF eipResponse.success THEN resolve(p, eipResponse)
    ELSE IF fallbackResponse.tag # "none"
         THEN IF fallbackResponse.success
              THEN resolve(p, fallbackResponse)
              ELSE fail(p, opts, fallbackResponse)
    ELSE fail(p, opts, eipResponse)

\* a handler that settles only from the response of a fallback
JoinHandlerFallbackOnly(p, opts, eipResponse, fallbackResponse) ==
    IF fallbackResponse.tag # "none"
    THEN IF fallbackResponse.success
         THEN resolve(p, fallbackResponse)
         ELSE fail(p, opts, fallbackResponse)
    ELSE p

\* lines 365-379: the handler of Promise.all
JoinHandler(p, opts, eipResponse, fallbackResponse) ==
    IF fallbackResponse.tag # "none"
    THEN IF fallbackResponse.success
         THEN resolve(p, fallbackResponse)
         ELSE fail(p, opts, fallbackResponse)
    ELSE IF eipResponse.success
         THEN resolve(p, eipResponse)
         ELSE fail(p, opts, eipResponse)

\* ------------------------------------------------------------ inputs

BaseFields ==
    [scheme |-> UNDEF, domain |-> "example.com", address |-> OwnerAddress,
     statement |-> UNDEF, uri |-> "https://example.com/login", version |-> "1",
     chainId |-> [type |-> "number", num |-> 1, str |-> ""],
     nonce |-> "abcdefgh", issuedAt |-> ISO[0], expirationTime |-> UNDEF,
     notBefore |-> UNDEF, requestId |-> UNDEF, resources |-> NORES]

\* the objects given to the constructor
FieldInputs ==
    { [BaseFields EXCEPT !.scheme = sc, !.statement = st, !.chainId = ch,
                         !.nonce = no, !.issuedAt = ia, !.expirationTime = w[1],
                         !.notBefore = w[2], !.requestId = rq, !.resources = rs] :
        sc \in {UNDEF, "https"},
        st \in {UNDEF, "", "Sign in to Example", TwoLineStatement},
        ch \in {[type |-> "number", num |-> 1, str |-> ""],
                [type |-> "string", num |-> 0, str |-> "5"],
                [type |-> "string", num |-> 0, str |-> "five"]},
        no \in {UNDEF, "", "abcdefgh"},
        ia \in {UNDEF, ISO[0], ShortISO[1]},
        w \in {<<UNDEF, UNDEF>>, <<ISO[1], ISO[2]>>},
        rq \in {UNDEF, "", "req-1"},
        rs \in {NORES, <<>>, <<"https://example.com/r1">>,
                <<"https://example.com/r1", "https://example.com/r2">>} }

\* the strings given to the constructor: the texts of field sets, whether the
\* parser accepts them or not
StringInputs ==
    { ToMessage([f EXCEPT !.chainId = 1], "zyxwvuts", 0).text :
        f \in {x \in FieldInputs : x.chainId.type = "number"} }

\* the messages verify is called on: constructed from these objects
VerifyMessages ==
    { ConstructFromFields(f, "zyxwvuts", 0).m :
        f \in { [BaseFields EXCEPT !.scheme = sc, !.expirationTime = ex,
                                   !.notBefore = nb] :
                  sc \in {UNDEF, "https"}, ex \in {UNDEF, ISO[1]},
                  nb \in {UNDEF, ISO[2]} } }

\* the values of params.time: absent, an instant, or no date at all
TimeInputs == {UNDEF, "not a date"} \cup {ISO[t] : t \in DOMAIN ISO}

\* a params object and the keys it has
Params(extra, signature, scheme, domain, nonce, time) ==
    [keys |-> {"signature"} \cup extra
              \cup (IF scheme = UNDEF THEN {} ELSE {"scheme"})
              \cup (IF domain = UNDEF THEN {} ELSE {"domain"})
              \cup (IF nonce = UNDEF THEN {} ELSE {"nonce"})
              \cup (IF time = UNDEF THEN {} ELSE {"time"}),
     signature |-> signature, scheme |-> scheme, domain |-> domain,
     nonce |-> nonce, time |-> time]

\* an opts object and the keys it has; provider stands for what its EIP-1271
\* check answers, verificationFallback for the function supplied
Opts(extra, suppressExceptions, provider, verificationFallback) ==
    [keys |-> {"suppressExceptions", "provider"} \cup extra
              \cup (IF verificationFallback = UNDEF THEN {}
                    ELSE {"verificationFallback"}),
     suppressExceptions |-> suppressExceptions, provider |-> provider,
     verificationFallback |-> verificationFallback]

Signatures == {"0xsignedByOwner", "0xsignedByOther", "0xmalformed"}
Providers == {"valid", "invalid", "throws"}
Fallbacks == {"throws", "resolvesSuccess", "resolvesFailure", "resolvesUndefined",
              "rejectsFailure", "rejectsError"}

\* calls that exercise the binding and temporal stages in every combination
StageInputs ==
    { [params |-> Params(pk, sg, sc, dm, no, tm), opts |-> Opts(ok, se, "invalid", UNDEF)] :
        pk \in {{}, {"chainId"}}, sg \in {"0xsignedByOwner", "0xsignedByOther"},
        sc \in {UNDEF, "", "https", "http"},
        dm \in {UNDEF, "", "example.com", "other.com"},
        no \in {UNDEF, "", "abcdefgh", "zyxwvuts"},
        tm \in TimeInputs, ok \in {{}, {"strict"}}, se \in BOOLEAN }

\* calls that exercise the proofs in every combination
ProofInputs ==
    { [params |-> Params({}, sg, UNDEF, dm, UNDEF, UNDEF), opts |-> Opts({}, se, pr, fb)] :
        sg \in Signatures, dm \in {UNDEF, "other.com"}, se \in BOOLEAN,
        pr \in Providers, fb \in Fallbacks \cup {UNDEF} }

VerifyInputs == StageInputs \cup ProofInputs

\* ------------------------------------------------------------ actions

IdleCall ==
    [pc |-> "idle",
     params |-> Params({}, UNDEF, UNDEF, UNDEF, UNDEF, UNDEF),
     opts |-> Opts({}, FALSE, UNDEF, UNDEF),
     promise |-> NewPromise, checkTime |-> NaN, addr |-> UNDEF,
     eip |-> "none", eipResponse |-> Nothing,
     fallback |-> "none", fallbackResponse |-> Nothing, join |-> "none"]

\* new SiweMessage(param) with an object, at the instant t
NewFromFields ==
    /\ phase = "new"
    /\ \E param \in FieldInputs, g \in GeneratedNonces, t \in now..MaxClock :
         LET c == ConstructFromFields(param, g, t)
         IN  /\ phase' = IF c.ok THEN "built" ELSE "failed"
             /\ msg' = IF c.ok THEN c.m ELSE NoFields
             /\ built' = c.m
             /\ now' = t
    /\ UNCHANGED <<texts, call, other>>

\* new SiweMessage(param) with a string
NewFromString ==
    /\ phase = "new"
    /\ \E param \in StringInputs :
         LET c == ConstructFromString(param)
         IN  /\ phase' = IF c.ok THEN "built" ELSE "failed"
             /\ msg' = IF c.ok THEN c.m ELSE NoFields
             /\ built' = msg'
    /\ UNCHANGED <<now, texts, call, other>>

\* a call of prepareMessage() on the constructed message, at the instant t
Serialize ==
    /\ phase = "built"
    /\ Len(texts) < MaxSerializations
    /\ \E g \in GeneratedNonces, t \in now..MaxClock :
         LET r == PrepareMessage(msg, g, t)
         IN  /\ texts' = Append(texts, [at |-> t, text |-> r.text])
             /\ msg' = r.m
             /\ now' = t
    /\ UNCHANGED <<phase, built, call, other>>

\* verify(params, opts): the executor of the promise, lines 196-380, up to the
\* registration of the Promise.all handler, on the message m: the fields of
\* the message afterwards and the state of the call
VerifyExecutor(m, in, g, t, t2) ==
    LET params == in.params
        opts == in.opts
        checkTime == CheckTime(params, t)
        p7 == Stages(m, params, opts, checkTime)
        prepared == PrepareMessage(m, g, t2)
        recovered == VerifyMessage(prepared.text, params.signature)
        matched == AddressMatches(recovered.addr, prepared.m)
        p8 == DirectMatch(p7, recovered.addr, prepared.m)
        p9 == IF matched THEN p8 ELSE StartProofs(p8, opts)
        thrown == ~matched /\ opts.verificationFallback = "throws"
    IN  [m |-> prepared.m,
         call |-> [pc |-> "called", params |-> params, opts |-> opts,
                   promise |-> p9, checkTime |-> checkTime,
                   addr |-> recovered.addr,
                   eip |-> IF matched THEN "none" ELSE "pending",
                   eipResponse |-> Nothing,
                   fallback |-> IF matched \/ opts.verificationFallback = UNDEF
                                THEN "none"
                                ELSE IF thrown THEN "threw" ELSE "pending",
                   fallbackResponse |-> Nothing,
                   join |-> IF matched \/ thrown THEN "none" ELSE "waiting"]]

\* the instants a call of verify may read: t for the check time (the clock
\* only when params.time is absent), t2 for toMessage() (only when it reads it)
VerifyInstants(in, t, t2) ==
    /\ ~Truthy(in.params.time) \/ t = now
    /\ t2 >= t
    /\ ReadsClock(msg) \/ t2 = t

\* a call of verify with one of the given inputs
VerifyWith(inputs) ==
    /\ phase = "built"
    /\ call.pc = "idle"
    /\ \E in \in inputs, g \in GeneratedNonces,
          t \in now..MaxClock, t2 \in now..MaxClock :
         /\ VerifyInstants(in, t, t2)
         /\ msg' = VerifyExecutor(msg, in, g, t, t2).m
         /\ now' = t2
         /\ call' = VerifyExecutor(msg, in, g, t, t2).call
    /\ UNCHANGED <<phase, built, texts, other>>

\* verify(params, opts)
Verify == VerifyWith(VerifyInputs)

\* the call once its contract-wallet proof has settled: lines 329-357
EIP1271Settled(c, m) ==
    [c EXCEPT !.eip = "settled",
              !.eipResponse = EIP1271Response(c.opts.provider, c.addr, m)]

\* the call once the promise of its fallback has settled: lines 361-364
FallbackSettled(c) ==
    [c EXCEPT !.fallback = "settled",
              !.fallbackResponse = FallbackResponse(c.opts.verificationFallback)]

\* Promise.all has both results of the call: lines 359-364
BothSettled(c) ==
    /\ c.join = "waiting"
    /\ c.eip = "settled"
    /\ c.fallback \in {"none", "settled"}

\* the call once the handler of Promise.all has run: lines 365-379
Joined(c) ==
    [c EXCEPT !.join = "done", !.pc = "joined",
              !.promise = JoinHandler(c.promise, c.opts,
                                      c.eipResponse, c.fallbackResponse)]

\* the contract-wallet proof settles
EIP1271Settle ==
    /\ call.eip = "pending"
    /\ call' = EIP1271Settled(call, msg)
    /\ UNCHANGED <<phase, msg, built, now, texts, other>>

\* the promise of the fallback settles
FallbackSettle ==
    /\ call.fallback = "pending"
    /\ call' = FallbackSettled(call)
    /\ UNCHANGED <<phase, msg, built, now, texts, other>>

\* Promise.all has both results and runs its handler
Join ==
    /\ BothSettled(call)
    /\ call' = Joined(call)
    /\ UNCHANGED <<phase, msg, built, now, texts, other>>

\* ------------------------------------------------------------ specifications

\* verification of a constructed message
Init ==
    /\ phase = "built"
    /\ msg \in VerifyMessages
    /\ built = msg
    /\ now = 0
    /\ texts = <<>>
    /\ call = IdleCall
    /\ other = IdleCall

Next == Verify \/ EIP1271Settle \/ FallbackSettle \/ Join

Spec == Init /\ [][Next]_vars

\* verification when the adapters and the fallback return or fail in the end,
\* and the handlers of settled promises are run: the calls that reach the
\* proofs in every combination
NextLive == VerifyWith(ProofInputs) \/ EIP1271Settle \/ FallbackSettle \/ Join

Fairness ==
    /\ WF_vars(EIP1271Settle)
    /\ WF_vars(FallbackSettle)
    /\ WF_vars(Join)

SpecLive == Init /\ [][NextLive]_vars /\ Fairness

\* the second call of verify(params, opts) on the same message
VerifyOther(inputs) ==
    /\ phase = "built"
    /\ other.pc = "idle"
    /\ \E in \in inputs, g \in GeneratedNonces,
          t \in now..MaxClock, t2 \in now..MaxClock :
         /\ VerifyInstants(in, t, t2)
         /\ msg' = VerifyExecutor(msg, in, g, t, t2).m
         /\ now' = t2
         /\ other' = VerifyExecutor(msg, in, g, t, t2).call
    /\ UNCHANGED <<phase, built, texts, call>>

\* the contract-wallet proof of the second call settles
EIP1271SettleOther ==
    /\ other.eip = "pending"
    /\ other' = EIP1271Settled(other, msg)
    /\ UNCHANGED <<phase, msg, built, now, texts, call>>

\* the promise of the fallback of the second call settles
FallbackSettleOther ==
    /\ other.fallback = "pending"
    /\ other' = FallbackSettled(other)
    /\ UNCHANGED <<phase, msg, built, now, texts, call>>

\* Promise.all of the second call has both results and runs its handler
JoinOther ==
    /\ BothSettled(other)
    /\ other' = Joined(other)
    /\ UNCHANGED <<phase, msg, built, now, texts, call>>

\* the messages two calls run on: constructed without a nonce and an issuedAt
\* of their own, or with an expiration time
ConcurrentMessages ==
    { ConstructFromFields(f, "zyxwvuts", 0).m :
        f \in { [BaseFields EXCEPT !.nonce = UNDEF, !.issuedAt = UNDEF],
                [BaseFields EXCEPT !.expirationTime = ISO[1]] } }

\* the calls that run together: a failed stage or none, a direct match or the
\* proofs, with and without a fallback
ConcurrentInputs ==
    { [params |-> Params({}, sg, UNDEF, dm, UNDEF, UNDEF),
       opts |-> Opts({}, FALSE, pr, fb)] :
        sg \in {"0xsignedByOwner", "0xsignedByOther"},
        dm \in {UNDEF, "other.com"},
        pr \in {"valid", "invalid"},
        fb \in {UNDEF, "resolvesFailure"} }

\* two calls of verify on one message, their steps interleaved
InitConcurrent ==
    /\ phase = "built"
    /\ msg \in ConcurrentMessages
    /\ built = msg
    /\ now = 0
    /\ texts = <<>>
    /\ call = IdleCall
    /\ other = IdleCall

NextConcurrent ==
    \/ VerifyWith(ConcurrentInputs)
    \/ EIP1271Settle
    \/ FallbackSettle
    \/ Join
    \/ VerifyOther(ConcurrentInputs)
    \/ EIP1271SettleOther
    \/ FallbackSettleOther
    \/ JoinOther

SpecConcurrent == InitConcurrent /\ [][NextConcurrent]_vars

\* construction and serialization of a message
InitMessage ==
    /\ phase = "new"
    /\ msg = NoFields
    /\ built = NoFields
    /\ now = 0
    /\ texts = <<>>
    /\ call = IdleCall
    /\ other = IdleCall

NextMessage == NewFromFields \/ NewFromString \/ Serialize

SpecMessage == InitMessage /\ [][NextMessage]_vars

\* ------------------------------------------------------------ properties

\* the error types of stages 1-7, in the order of the specification
StageOrder ==
    <<"INVALID_PARAMS_KEYS", "INVALID_OPTS_KEYS", "SCHEME_MISMATCH",
      "DOMAIN_MISMATCH", "NONCE_MISMATCH", "EXPIRED_MESSAGE",
      "NOT_YET_VALID_MESSAGE">>
Adapters == {"verifyMessage", "checkContractWalletSignature", "verificationFallback"}

Trace == call.promise.trace
InTrace(e) == \E k \in DOMAIN Trace : Trace[k] = e
\* the stages that failed in this call, by their position in StageOrder
FailedStages == {i \in DOMAIN StageOrder : InTrace(StageOrder[i])}
Earliest(S) == CHOOSE i \in S : \A j \in S : i <= j
Called == call.pc # "idle"
Settled == call.promise.state # "pending"
Succeeded == call.promise.state = "resolved" /\ call.promise.value.success
\* stages 1-7 passed and the recovered address does not match
ReachedProofs == Called /\ FailedStages = {} /\ call.eip # "none"

\* C1: when several stages fail, the result of verify carries the error of the
\* earliest failing stage, in the order of the specification
C1_EarliestStageWins ==
    (Called /\ Cardinality(FailedStages) >= 2)
        => /\ Settled
           /\ ~Succeeded
           /\ call.promise.value.type = StageOrder[Earliest(FailedStages)]

\* a mismatched domain override and a passed expiration time: DomainMismatch
C1_Witness ==
    /\ call.pc = "joined"
    /\ InTrace("DOMAIN_MISMATCH") /\ InTrace("EXPIRED_MESSAGE")
    /\ FailedStages = {4, 6}
    /\ call.promise.value.type = "DOMAIN_MISMATCH"

\* C2: once a stage has failed, nothing later is evaluated: no later stage
\* fails and no adapter or fallback is invoked after it
C2_NothingAfterFailedStage ==
    \A i, j \in DOMAIN Trace :
        (i < j /\ \E k \in DOMAIN StageOrder : Trace[i] = StageOrder[k])
            => /\ Trace[j] \notin Adapters
               /\ \A k \in DOMAIN StageOrder : Trace[j] # StageOrder[k]

\* C3: a settled verify call keeps its outcome: no later resolve or fail
\* changes the state or the value of the promise
C3_SettlesOnce ==
    [][call.promise.state # "pending"
         => /\ call'.promise.state = call.promise.state
            /\ call'.promise.value = call.promise.value]_vars

\* the join handler fails a call that a stage had already rejected
C3_Witness ==
    /\ call.pc = "joined"
    /\ call.promise.attempts >= 2
    /\ call.promise.state = "rejected"
    /\ call.promise.value.type = "DOMAIN_MISMATCH"
    /\ call.eipResponse.success

\* the outcome of a direct match: success with the message, no proof started
DirectSuccess ==
    /\ call.promise.state = "resolved"
    /\ call.promise.value = Success
    /\ call.promise.value.data = "this"
    /\ ~InTrace("checkContractWalletSignature")
    /\ ~InTrace("verificationFallback")

\* C4 as stated: when the binding and temporal stages pass and the recovered
\* address equals the address of the message, verify resolves with success
C4_Original ==
    (Called /\ FailedStages \cap {3, 4, 5, 6, 7} = {} /\ call.addr = msg.address)
        => DirectSuccess

\* C4 amended: when all of stages 1-7 pass (key validation included) and the
\* recovered address equals the address of the message, verify resolves with
\* success = true and data = the message, and starts neither proof
C4_DirectMatch ==
    (Called /\ FailedStages = {} /\ call.addr = msg.address) => DirectSuccess

C4_Witness ==
    /\ Called /\ FailedStages = {} /\ call.addr = msg.address
    /\ call.params.signature = "0xsignedByOwner"
    /\ call.params.domain = msg.domain
    /\ Succeeded

\* C5: when the proofs are reached and the fallback produced a response, that
\* response is the result of verify, whatever the contract-wallet proof gave
C5_FallbackDecides ==
    (ReachedProofs /\ call.pc = "joined" /\ call.fallbackResponse.tag # "none")
        => /\ Settled
           /\ call.promise.value = call.fallbackResponse
           /\ Succeeded <=> call.fallbackResponse.success

\* a failing contract-wallet proof and a successful fallback yield success
C5_Witness ==
    /\ ReachedProofs /\ call.pc = "joined"
    /\ ~call.eipResponse.success
    /\ call.fallbackResponse.success
    /\ Succeeded

\* C6: with suppressExceptions every failure is a resolved result with
\* success = false and the call never rejects; without it every failure is a
\* rejection and the call never resolves with success = false
C6_SuppressionDecidesDelivery ==
    (Settled /\ ~Succeeded)
        => IF call.opts.suppressExceptions
           THEN /\ call.promise.state = "resolved"
                /\ call.promise.value.tag = "response"
                /\ ~call.promise.value.success
           ELSE call.promise.state = "rejected"

\* C7: the expiration stage fails exactly when expirationTime is set and the
\* check time is at or after it; the notBefore stage fails exactly when
\* notBefore is set and the check time is before it
C7_TimeBounds ==
    (Called /\ call.checkTime # NaN)
        => /\ call.checkTime = IF call.params.time \in {UNDEF, ""}
                               THEN now ELSE DateParse(call.params.time)
           /\ InTrace("EXPIRED_MESSAGE")
                <=> /\ msg.expirationTime # UNDEF
                    /\ call.checkTime >= DateParse(msg.expirationTime)
           /\ InTrace("NOT_YET_VALID_MESSAGE")
                <=> /\ msg.notBefore # UNDEF
                    /\ call.checkTime < DateParse(msg.notBefore)

\* the check time is the expiration time: expired
C7_Witness ==
    /\ Called
    /\ msg.expirationTime # UNDEF
    /\ call.checkTime = DateParse(msg.expirationTime)
    /\ call.promise.value.type = "EXPIRED_MESSAGE"

\* C8: with no fallback supplied the contract-wallet proof decides: verify
\* succeeds exactly when the EIP-1271 check answers true
C8_ContractWalletDecides ==
    (ReachedProofs /\ call.pc = "joined" /\ call.opts.verificationFallback = UNDEF)
        => /\ Settled
           /\ call.promise.value = call.eipResponse
           /\ Succeeded <=> call.opts.provider = "valid"

C8_Witness ==
    /\ ReachedProofs /\ call.pc = "joined"
    /\ call.opts.verificationFallback = UNDEF
    /\ call.opts.provider = "valid"
    /\ Succeeded

\* the failed result the specification gives for the contract-wallet proof
IsInvalidSignature(r) ==
    /\ r.tag = "response" /\ ~r.success
    /\ r.type = "INVALID_SIGNATURE"
    /\ r.expected = call.addr
    /\ r.received = "Resolved address to be " \o msg.address

\* C9 as stated: a check that answers false and a check that throws both give
\* a failed result whose error is InvalidSignature
C9_Original ==
    (call.eip = "settled" /\ call.opts.provider \in {"invalid", "throws"})
        => IsInvalidSignature(call.eipResponse)

\* C9 amended: a check that answers false gives a failed result whose error is
\* InvalidSignature with the recovered and the expected address; a check that
\* throws gives a failed result whose error is the error thrown
C9_ContractWalletFailure ==
    call.eip = "settled"
        => /\ call.opts.provider = "invalid" => IsInvalidSignature(call.eipResponse)
           /\ call.opts.provider = "throws"
                => /\ call.eipResponse.tag = "response"
                   /\ ~call.eipResponse.success
                   /\ call.eipResponse.type = "PROVIDER_ERROR"

C9_Witness ==
    /\ call.eip = "settled"
    /\ call.opts.provider = "throws"
    /\ call.eipResponse.type = "PROVIDER_ERROR"
    /\ call.params.signature = "0xmalformed"

\* C10: on a constructed message every prepareMessage call returns the same
\* string, at whatever instant, and leaves every field as the constructor left it
C10_SerializationRepeatable ==
    phase = "built"
        => /\ msg = built
           /\ \A i \in DOMAIN texts : texts[i].text = texts[1].text

\* two calls at different instants on a message built without nonce or issuedAt
C10_Witness ==
    /\ phase = "built"
    /\ Len(texts) = 2
    /\ texts[1].at < texts[2].at
    /\ msg.nonce \in GeneratedNonces
    /\ msg.issuedAt # ISO[texts[2].at]

\* parse(serialize(m)) for the message as it is now
Reparsed == ParsedMessage(PrepareMessage(msg, "zyxwvuts", now).text)

\* C11: round trip: parsing the serialization of a constructed message
\* succeeds and yields the fields of the constructed message, every one of them
C11_RoundTrip ==
    phase = "built" => (Reparsed.ok /\ Reparsed.m = msg)

\* C12: a message exists only if the parser accepted it: the constructor fails
\* when the parser rejects the string given, or the serialization of the fields
\* given, so every constructed message has a serialization the parser accepts
C12_ConstructedMeansParseable ==
    /\ phase = "built" => Reparsed.ok
    /\ phase = "failed" => msg = NoFields

\* the fields had a statement with a line feed: the constructor threw
C12_Witness ==
    /\ phase = "failed"
    /\ built.statement = TwoLineStatement
    /\ built.chainId # NaN
    /\ ~ParsedMessage(PrepareMessage(built, "zyxwvuts", now).text).ok
    /\ msg = NoFields

\* what the specification asks of the stage of one binding override: it fails
\* exactly when the override is given and differs, and the error delivered for
\* it carries the override as expected and the value of the message as actual
OverrideChecked(type, override, own) ==
    /\ InTrace(type) <=> (override # UNDEF /\ override # own)
    /\ call.promise.value.type = type
         => /\ call.promise.value.expected = override
            /\ call.promise.value.received = own

\* C13: for each binding override (scheme, domain, nonce) and every value of
\* it, the empty string included, the stage fails if and only if the override
\* is given and differs from the value of the message
C13_OverridesChecked ==
    Called
        => /\ OverrideChecked("SCHEME_MISMATCH", call.params.scheme, msg.scheme)
           /\ OverrideChecked("DOMAIN_MISMATCH", call.params.domain, msg.domain)
           /\ OverrideChecked("NONCE_MISMATCH", call.params.nonce, msg.nonce)

\* the recovery adapter threw in this call
RecoveryThrew == Called /\ call.params.signature = "0xmalformed"

\* what the contract-wallet / fallback stage produces once both proofs are in
ProofStageResult ==
    IF call.fallbackResponse.tag # "none" THEN call.fallbackResponse
    ELSE call.eipResponse

\* C14: a throw of the recovery adapter never settles verify by itself: with
\* stages 1-7 passed the call goes on to the contract-wallet / fallback stage
\* with no recovered address, and it settles with what that stage produces
C14_RecoveryFailureNotFatal ==
    (RecoveryThrew /\ FailedStages = {})
        => /\ call.addr = UNDEF
           /\ InTrace("checkContractWalletSignature")
           /\ call.eip # "none"
           /\ (call.pc = "called" /\ call.fallback # "threw") => ~Settled
           /\ call.pc = "joined"
                => /\ Settled
                   /\ call.promise.value = ProofStageResult

\* the recovery threw, the contract-wallet proof was valid: the call succeeded
C14_Witness ==
    /\ RecoveryThrew
    /\ FailedStages = {}
    /\ call.pc = "joined"
    /\ call.opts.provider = "valid"
    /\ call.fallback = "none"
    /\ Succeeded

\* the position of an adapter call in the trace of this call, 0 when absent
TracePosition(e) ==
    IF InTrace(e) THEN CHOOSE k \in DOMAIN Trace : Trace[k] = e ELSE 0

\* stages 1-7 passed, no direct match, and a fallback was supplied
ReachedProofsWithFallback ==
    ReachedProofs /\ call.opts.verificationFallback # UNDEF

\* C15: the two proofs are joined, not raced: with a fallback supplied the
\* contract-wallet proof is started before the fallback is called, and under
\* every completion order verify does not settle from this stage until both
\* proofs have settled
C15_JoinNotRace ==
    ReachedProofsWithFallback
        => /\ 0 < TracePosition("checkContractWalletSignature")
           /\ TracePosition("checkContractWalletSignature")
                < TracePosition("verificationFallback")
           /\ Settled => (call.eip = "settled" /\ call.fallback = "settled")

\* the text prepareMessage() returns for the message as it is now
Serialized == PrepareMessage(msg, "zyxwvuts", now).text

HasResourcesLine(T) == \E i \in DOMAIN T : T[i] = <<"Resources:">>

\* the entries of the resources of the message, none when they are absent
ResourceEntries == IF msg.resources = NORES THEN <<>> ELSE msg.resources

\* C16: the serialization has a "Resources:" line if and only if resources is
\* present and non-empty; the line is followed by one "- uri" line per entry,
\* in order, as the last lines; an empty list serializes with no such line
C16_ResourcesLine ==
    phase = "built"
        => LET T == Serialized
               n == Len(T)
               k == Len(ResourceEntries)
           IN  /\ HasResourcesLine(T) <=> k > 0
               /\ HasResourcesLine(T)
                    => /\ T[n - k] = <<"Resources:">>
                       /\ \A i \in 1..k : T[n - k + i] = <<"- ", ResourceEntries[i]>>

\* the serialization of the message as it is now, with another statement
SerializedWith(statement) ==
    PrepareMessage([msg EXCEPT !.statement = statement], "zyxwvuts", now).text

\* C17: a message without a statement serializes with the address line
\* followed by two blank lines and the URI line; with a statement, the empty
\* one included, with a blank line, the statement line, a blank line and the
\* URI line; so an absent and an empty statement serialize differently
C17_StatementLayout ==
    phase = "built"
        => LET T == Serialized
           IN  /\ T[2] = <<msg.address>>
               /\ T[3] = <<>>
               /\ msg.statement = UNDEF
                    => /\ T[4] = <<>>
                       /\ T[5] = <<"URI: ", msg.uri>>
               /\ msg.statement # UNDEF
                    => /\ T[4] = (IF msg.statement = "" THEN <<>> ELSE <<msg.statement>>)
                       /\ T[5] = <<>>
                       /\ T[6] = <<"URI: ", msg.uri>>
               /\ SerializedWith(UNDEF) # SerializedWith("")

\* a message with an empty statement was constructed and serialized: the
\* statement line is empty and the URI line is the sixth
C17_Witness ==
    /\ phase = "built"
    /\ msg.statement = ""
    /\ Len(texts) >= 1
    /\ texts[1].text[4] = <<>>
    /\ texts[1].text[6] = <<"URI: ", msg.uri>>

\* C18: when the adapters and the fallback each return or fail in the end,
\* every call of verify settles in the end, also with a fallback that throws
\* or that yields no response
C18_EventuallySettles == Called ~> Settled

\* the fallback yielded no response and the call settled from the
\* contract-wallet proof
C18_Witness ==
    /\ call.pc = "joined"
    /\ call.opts.verificationFallback = "resolvesUndefined"
    /\ call.fallbackResponse = Nothing
    /\ Settled

\* C19: verify never delivers a success when any of stages 1-7 failed,
\* whatever the recovery, the contract-wallet check and the fallback return
C19_NoSuccessAfterFailedStage ==
    (Called /\ FailedStages # {})
        => /\ Settled
           /\ ~Succeeded

\* a stage failed and the fallback answered with a success all the same: the
\* call stays rejected
C19_Witness ==
    /\ FailedStages # {}
    /\ call.pc = "joined"
    /\ call.fallbackResponse.tag # "none"
    /\ call.fallbackResponse.success
    /\ call.promise.state = "rejected"

\* the call has no step left
Finished(c) == c.pc = "joined" \/ (c.pc = "called" /\ c.join = "none")

\* the instant a call read for its check time
CheckInstant(c) == IF Truthy(c.params.time) THEN 0 ELSE c.checkTime

\* the call with the inputs of c run alone on the message as constructed,
\* every step of it taken in turn
RunAlone(c) ==
    LET c1 == VerifyExecutor(built, [params |-> c.params, opts |-> c.opts],
                             "zyxwvuts", CheckInstant(c), CheckInstant(c)).call
        c2 == IF c1.eip = "pending" THEN EIP1271Settled(c1, built) ELSE c1
        c3 == IF c2.fallback = "pending" THEN FallbackSettled(c2) ELSE c2
    IN  IF BothSettled(c3) THEN Joined(c3) ELSE c3

\* C20: two calls of verify on the same message do not interfere: each settles
\* as it would when run alone, and the fields of the message stay as they were
C20_CallsDoNotInterfere ==
    /\ msg = built
    /\ \A c \in {call, other} :
         Finished(c)
            => /\ c.promise.state # "pending"
               /\ c.promise = RunAlone(c).promise

\* both calls ran with their steps interleaved and settled differently: the
\* first was rejected at the join, the second succeeded at its own
C20_Witness ==
    /\ call.pc = "joined"
    /\ other.pc = "joined"
    /\ call.promise.state = "rejected"
    /\ other.promise.state = "resolved"
    /\ other.promise.value.success
    /\ msg = built

====
